---------------------------- MODULE Spec2Model ----------------------------
(***************************************************************************)
(* A model of the Garmin health tracker's synchronisation job              *)
(* (fetch_garmin_data.py) and of the store it shares with the web          *)
(* application (app.py).                                                   *)
(*                                                                         *)
(* One run of the job is a sequential process whose position is pc.  The   *)
(* store is an SQLite file: db holds the committed tables, conn the tables *)
(* as the job's connection sees them (committed rows plus the changes of   *)
(* its open transaction).  A reader on its own connection sees db only.    *)
(* Python values: None is the integer -1; a remote response is a record    *)
(* tagged "raise" (the call raised), "None", "dict" or "list".             *)
(***************************************************************************)
EXTENDS Integers, Sequences, FiniteSets, Bags, TLC

\* ------------------------------------------------------------------ bounds
\* Days back to fetch; the program's default is 90.
DAYS_TO_FETCH == 1
\* Number of runs of the job (the cron job starts one per day).
MaxRuns == 2
\* Number of remote calls not answered in full, and of statements and
\* commits on the store that raise, in a behaviour.
MaxFaults == 1

\* ------------------------------------------------------------ Python values
None == -1

Raise == [tag |-> "raise"]
PyNone == [tag |-> "None"]
EmptyDict == [tag |-> "dict"]

\* dict.get(key) and dict.get(key, default)
Get(d, k) ==
    IF k \in DOMAIN d THEN d[k] ELSE None

\* bool(v) of a number or None
Truthy(v) ==
    v # None /\ v # 0

\* str(v) of a number or None
Str(v) ==
    IF v = None THEN "None" ELSE ToString(v)

\* ------------------------------------------------------------------ tables
\* A table is the bag of its rows (the surrogate id and created_at columns,
\* which no query of the program reads, are left out; two rows with equal
\* columns are one row held twice).
EmptyTables ==
    [daily_health |-> EmptyBag, activities |-> EmptyBag,
     activity_heart_rate |-> EmptyBag, sport_metrics |-> EmptyBag]

\* The rows of tbl that have value v in column col, and the others.
Where(tbl, col, v) ==
    [r \in {x \in DOMAIN tbl : x[col] = v} |-> tbl[r]]

WhereNot(tbl, col, v) ==
    [r \in {x \in DOMAIN tbl : x[col] # v} |-> tbl[r]]

\* INSERT INTO tbl VALUES row
Insert(tbl, row) ==
    tbl (+) SetToBag({row})

\* INSERT OR REPLACE on a table without the UNIQUE constraint: a plain insert.
InsertOrReplaceNoConstraint(tbl, key, row) ==
    Insert(tbl, row)

\* INSERT OR REPLACE where only a row equal in every column is in conflict.
InsertOrReplaceWholeRow(tbl, key, row) ==
    Insert([r \in DOMAIN tbl \ {row} |-> tbl[r]], row)

\* INSERT OR REPLACE on a table whose column key is UNIQUE: the rows in
\* conflict with the new one are deleted, then the new row is inserted.
InsertOrReplace(tbl, key, row) ==
    Insert(WhereNot(tbl, key, row[key]), row)

\* A replace that has lost its DELETE.
DeleteNothing(tbl, id) ==
    tbl

\* DELETE FROM tbl WHERE activity_id = ?
DeleteActivity(tbl, id) ==
    WhereNot(tbl, "activity_id", id)

\* Number of rows of tbl with value v in column col.
Count(tbl, col, v) ==
    BagCardinality(Where(tbl, col, v))

\* ------------------------------------------------------------------ strings
\* An activity type is a string, held as the sequence of its characters.
Upper ==
    <<"A","B","C","D","E","F","G","H","I","J","K","L","M",
      "N","O","P","Q","R","S","T","U","V","W","X","Y","Z">>

LowerOf ==
    <<"a","b","c","d","e","f","g","h","i","j","k","l","m",
      "n","o","p","q","r","s","t","u","v","w","x","y","z">>

\* str.lower(): each upper-case letter becomes its lower-case letter, every
\* other character stays.
LowerChar(c) ==
    IF \E i \in 1..Len(Upper) : Upper[i] = c
    THEN LowerOf[CHOOSE i \in 1..Len(Upper) : Upper[i] = c]
    ELSE c

\* A comparison that has lost its .lower().
LowerForgotten(s) ==
    s

Lower(s) ==
    [i \in 1..Len(s) |-> LowerChar(s[i])]

\* sub in s
Contains(sub, s) ==
    \E i \in 1..(Len(s) - Len(sub) + 1) : SubSeq(s, i, i + Len(sub) - 1) = sub

lap_swimming == <<"l","a","p","_","s","w","i","m","m","i","n","g">>
open_water == <<"o","p","e","n","_","w","a","t","e","r">>
cycling == <<"c","y","c","l","i","n","g">>
rowing == <<"r","o","w","i","n","g">>
unknown == <<"u","n","k","n","o","w","n">>

\* ------------------------------------------------------- sport metrics
\* The sport-specific metrics of an activity of type activity_type whose
\* detail is details: the dict sport_metrics, as its items in insertion order.
SwimmingMetrics(activity_type, details) ==
    IF Contains(lap_swimming, Lower(activity_type))
       \/ Contains(open_water, Lower(activity_type))
    THEN << <<"strokes", Get(details, "strokes")>>,
            <<"avg_stroke_distance", Get(details, "avgStrokeDistance")>>,
            <<"swolf", Get(details, "swolfAverage")>> >>
    ELSE <<>>

CyclingMetrics(activity_type, details) ==
    IF Contains(cycling, Lower(activity_type))
    THEN << <<"avg_cadence", Get(details, "averageBikingCadenceInRevPerMinute")>>,
            <<"max_cadence", Get(details, "maxBikingCadenceInRevPerMinute")>>,
            <<"avg_power", Get(details, "avgPower")>> >>
    ELSE <<>>

RowingMetrics(activity_type, details) ==
    IF Contains(rowing, Lower(activity_type))
    THEN << <<"avg_stroke_rate", Get(details, "averageStrokeRate")>>,
            <<"max_stroke_rate", Get(details, "maxStrokeRate")>> >>
    ELSE <<>>

ExtractSportMetrics(activity_type, details) ==
    SwimmingMetrics(activity_type, details)
        \o CyclingMetrics(activity_type, details)
        \o RowingMetrics(activity_type, details)

\* The keys of a dict held as its items.
Keys(items) ==
    {items[i][1] : i \in 1..Len(items)}

\* ------------------------------------------------------ the remote service
\* What the garminconnect client returns for a date d when the service has
\* full data for it; each call may also raise, return None or return an
\* empty or partial structure.
StatsOf(d) ==
    [tag |-> "dict", totalSteps |-> 5000 + d,
     totalDistanceMeters |-> 4000 + d, vo2Max |-> 50 + d]

HeartRatesOf(d) ==
    [tag |-> "dict", restingHeartRate |-> 60 + d, maxHeartRate |-> 150 + d]

SleepOf(d) ==
    [tag |-> "dict",
     dailySleepDTO |->
        [tag |-> "dict", sleepTimeSeconds |-> 25000 + d,
         sleepScores |->
            [tag |-> "dict", overall |-> [tag |-> "dict", value |-> 80 + d]]]]

SleepNoScore(d) ==
    [tag |-> "dict",
     dailySleepDTO |-> [tag |-> "dict", sleepTimeSeconds |-> 25000 + d]]

EmptyList == [tag |-> "list", items |-> <<>>]

BodyBatteryOf(d) ==
    [tag |-> "list", items |-> << [tag |-> "dict", charged |-> 70 + d] >>]

RespirationOf(d) ==
    [tag |-> "dict", avgWakingRespirationValue |-> 15 + d]

PulseOxOf(d) ==
    [tag |-> "dict", averageSpo2 |-> 95 + d]

StatsResponses(d) == {Raise, PyNone, EmptyDict, StatsOf(d)}
HeartRatesResponses(d) == {Raise, PyNone, EmptyDict, HeartRatesOf(d)}
SleepResponses(d) == {Raise, PyNone, EmptyDict, SleepNoScore(d), SleepOf(d)}
BodyBatteryResponses(d) == {Raise, PyNone, EmptyList, BodyBatteryOf(d)}
RespirationResponses(d) == {Raise, PyNone, EmptyDict, RespirationOf(d)}
PulseOxResponses(d) == {Raise, PyNone, EmptyDict, PulseOxOf(d)}

\* --------------------------------------------- the per-date field parsing
\* sleep_data.get('dailySleepDTO', {}).get('sleepScores', {})
\*           .get('overall', {}).get('value') and
\* sleep_data.get('dailySleepDTO', {}).get('sleepTimeSeconds'), as the pair
\* <<sleep_score, sleep_duration>>; the bare except sets both to None.
SleepFields(r) ==
    IF r.tag # "dict"
    THEN <<None, None>>
    ELSE LET dto == IF "dailySleepDTO" \in DOMAIN r
                    THEN r.dailySleepDTO ELSE EmptyDict
             scores == IF "sleepScores" \in DOMAIN dto
                       THEN dto.sleepScores ELSE EmptyDict
             overall == IF "overall" \in DOMAIN scores
                        THEN scores.overall ELSE EmptyDict
         IN  <<Get(overall, "value"), Get(dto, "sleepTimeSeconds")>>

\* body_battery_data[0].get('charged') if body_battery_data else None,
\* None when the call or the expression raises.
BodyBatteryField(r) ==
    IF r.tag = "list" /\ Len(r.items) > 0
    THEN Get(r.items[1], "charged")
    ELSE None

\* respiration_data.get('avgWakingRespirationValue'), None when it raises.
RespirationField(r) ==
    IF r.tag = "dict" THEN Get(r, "avgWakingRespirationValue") ELSE None

\* spo2_data.get('averageSpo2'), None when it raises.
PulseOxField(r) ==
    IF r.tag = "dict" THEN Get(r, "averageSpo2") ELSE None

\* ------------------------------------------------------------------- state
VARIABLES
    pc,               \* position of the job; "idle" when no job runs
    run,              \* number of jobs started
    outcome,          \* how the last job ended, "running" while one runs
    now,              \* the current day (datetime.now())
    GARMIN_EMAIL,     \* os.environ.get('GARMIN_EMAIL'), "" when empty
    GARMIN_PASSWORD,  \* os.environ.get('GARMIN_PASSWORD')
    db,               \* the committed tables of health.db
    conn,             \* the tables as the job's connection sees them
    connected,        \* whether the job holds an open connection
    end_date, current_date, daily_count,
    stats, hr_data, sleep_score, sleep_duration, body_battery,
    respiration, spo2,
    activities, idx, details, hr_data_points, sport_metrics, k,
    activity_count, hr_detail_count,
    called,           \* this run has made a remote call
    wrote,            \* this run has executed a statement on the store
    faults,           \* remote calls not answered in full, and interrupts
    write_faults,     \* statements and commits that raised so far
    replay,           \* the service repeats in a later run what it answered
    answers,          \* the answers of the first run, kept when replay holds
    login_attempts,   \* the calls of client.login() in this run
    login_error,      \* the exception client.login() raised in this run
    prev,             \* how the run before this one ended
    interrupted,      \* a KeyboardInterrupt was raised in this run
    logged_in,        \* client.login() has returned in this run
    visited,          \* the dates whose iteration this run has started
    stored,           \* the saves of this run that committed, per kind
    paced             \* time.sleep has run since the last remote call

env ==
    <<now, GARMIN_EMAIL, GARMIN_PASSWORD, called, wrote, faults,
      write_faults, replay, answers>>
store == <<db, conn, connected>>
dailyLocals ==
    <<stats, hr_data, sleep_score, sleep_duration, body_battery,
      respiration, spo2>>
activityLocals ==
    <<activities, idx, details, hr_data_points, sport_metrics, k>>
counters == <<daily_count, activity_count, hr_detail_count>>
audit ==
    <<login_attempts, login_error, prev, interrupted, logged_in, visited>>
vars ==
    <<pc, run, outcome, end_date, current_date, env, store, dailyLocals,
      activityLocals, counters, audit, stored, paced>>

\* os.environ.get of a variable that is not set (Python's None), and the
\* values a credential variable may have.
NoEnv == "<None>"
EnvValues == {NoEnv, "", "secret"}

\* A local that holds nothing yet (or nothing any more: the job reads no
\* local of an earlier iteration before assigning it again).
Unset == [tag |-> "unset"]
Unasked == [tag |-> "unasked"]

ActivityIds == {1, 2}
Dates == 0..(DAYS_TO_FETCH + MaxRuns - 1)
Endpoints ==
    {"login", "get_stats", "get_heart_rates", "get_sleep_data",
     "get_body_battery", "get_respiration_data", "get_pulse_ox",
     "get_activities", "get_activity", "get_activity_hr_in_timezones"}
CallKeys == Endpoints \X (Dates \cup ActivityIds \cup {None})

\* The answers the service may give to the call key, whose answers are the
\* set all, the ones in full being those in normal.
Ask(key, all, normal) ==
    IF replay /\ answers[key] # Unasked
    THEN {answers[key]}
    ELSE {r \in all : r \in normal \/ faults + write_faults < MaxFaults}

\* The bookkeeping of an answer r to the call key.
Answered(key, r, normal) ==
    /\ faults' = IF (replay /\ answers[key] # Unasked) \/ r \in normal
                 THEN faults ELSE faults + 1
    /\ answers' = IF replay THEN [answers EXCEPT ![key] = r] ELSE answers
    /\ called' = TRUE
    /\ paced' = FALSE

\* The ways a write to the store may end: it succeeds, its statement raises,
\* or its commit raises.
WriteOutcomes ==
    IF ~replay /\ faults + write_faults < MaxFaults
    THEN {"ok", "execute_raises", "commit_raises"} ELSE {"ok"}

InitLocals ==
    /\ end_date = None /\ current_date = None /\ daily_count = 0
    /\ stats = Unset /\ hr_data = Unset
    /\ sleep_score = None /\ sleep_duration = None /\ body_battery = None
    /\ respiration = None /\ spo2 = None
    /\ activities = <<>> /\ idx = 0 /\ details = Unset
    /\ hr_data_points = <<>> /\ sport_metrics = <<>> /\ k = 0
    /\ activity_count = 0 /\ hr_detail_count = 0

\* No exception of client.login(); no run before the first; no save yet.
NoError == "none"
NoRun == [error |-> NoError, outcome |-> "none"]
NothingStored == [daily |-> 0, dates |-> {}, activity |-> 0, hr |-> 0]

\* The state after init_db() has created the empty tables.
InitCommon ==
    /\ pc = "idle" /\ run = 0 /\ outcome = "none"
    /\ now = DAYS_TO_FETCH
    /\ GARMIN_EMAIL = NoEnv /\ GARMIN_PASSWORD = NoEnv
    /\ db = EmptyTables /\ conn = EmptyTables /\ connected = FALSE
    /\ InitLocals
    /\ called = FALSE /\ wrote = FALSE
    /\ faults = 0 /\ write_faults = 0
    /\ answers = [key \in CallKeys |-> Unasked]
    /\ login_attempts = 0 /\ login_error = NoError /\ prev = NoRun
    /\ interrupted = FALSE /\ logged_in = FALSE /\ visited = <<>>
    /\ stored = NothingStored /\ paced = FALSE

Init ==
    InitCommon /\ replay = FALSE

\* ------------------------------------------------------ start of a run
\* The cron job starts the script: the module reads its environment.  The
\* day may have advanced since the last run.
Launch ==
    /\ pc = "idle" /\ run < MaxRuns
    /\ run' = run + 1
    /\ outcome' = "running"
    /\ IF replay /\ run > 0
       THEN UNCHANGED <<GARMIN_EMAIL, GARMIN_PASSWORD>>
       ELSE \E e \in EnvValues, p \in EnvValues :
               GARMIN_EMAIL' = e /\ GARMIN_PASSWORD' = p
    /\ called' = FALSE /\ wrote' = FALSE
    /\ now' \in (IF replay \/ run = 0 THEN {now} ELSE {now, now + 1})
    /\ pc' = "check_credentials"
    /\ end_date' = None /\ current_date' = None /\ daily_count' = 0
    /\ stats' = Unset /\ hr_data' = Unset
    /\ sleep_score' = None /\ sleep_duration' = None /\ body_battery' = None
    /\ respiration' = None /\ spo2' = None
    /\ activities' = <<>> /\ idx' = 0 /\ details' = Unset
    /\ hr_data_points' = <<>> /\ sport_metrics' = <<>> /\ k' = 0
    /\ activity_count' = 0 /\ hr_detail_count' = 0
    /\ UNCHANGED <<store, faults, write_faults, replay, answers>>
    /\ prev' = [error |-> login_error, outcome |-> outcome]
    /\ login_attempts' = 0
    /\ login_error' = NoError /\ interrupted' = FALSE /\ logged_in' = FALSE
    /\ stored' = NothingStored /\ paced' = FALSE /\ visited' = <<>>

\* A check that takes a variable that is not set for a value.
NotEmptyOnly(v) ==
    v = ""

\* not v, of an environment value
Not(v) ==
    v = NoEnv \/ v = ""

\* if not GARMIN_EMAIL or not GARMIN_PASSWORD: sys.exit(1)
CheckCredentials ==
    /\ pc = "check_credentials"
    /\ IF Not(GARMIN_EMAIL) \/ Not(GARMIN_PASSWORD)
       THEN pc' = "idle" /\ outcome' = "exit 1: credentials not set"
       ELSE pc' = "login" /\ outcome' = outcome
    /\ UNCHANGED <<run, end_date, current_date, env, store, dailyLocals,
                   activityLocals, counters>>
    /\ UNCHANGED <<audit, stored, paced>>

\* client = Garmin(...); client.login(): any exception ends the job.  A
\* login that fails ends the run at once and is not counted among the
\* faults, so that a later run may fail too.
LoggedIn == [tag |-> "ok"]
LoginResponses ==
    {LoggedIn, [tag |-> "raise", error |-> "authentication"],
     [tag |-> "raise", error |-> "connection"]}

\* A login whose failure does not end the job.
LoginIgnoringFailure ==
    /\ pc = "login"
    /\ \E r \in Ask(<<"login", None>>, LoginResponses, LoginResponses) :
          /\ Answered(<<"login", None>>, r, LoginResponses)
          /\ pc' = "connect" /\ outcome' = outcome
          /\ login_attempts' = login_attempts + 1
          /\ logged_in' = (r = LoggedIn)
          /\ login_error' = IF r = LoggedIn THEN NoError ELSE r.error
    /\ UNCHANGED <<run, end_date, current_date, now, GARMIN_EMAIL,
                   GARMIN_PASSWORD, wrote, write_faults, replay, store,
                   dailyLocals, activityLocals, counters, prev, interrupted,
                   stored, visited>>

Login ==
    /\ pc = "login"
    /\ \E r \in Ask(<<"login", None>>, LoginResponses, LoginResponses) :
          /\ Answered(<<"login", None>>, r, LoginResponses)
          /\ IF r = LoggedIn
             THEN pc' = "connect" /\ outcome' = outcome
             ELSE pc' = "idle" /\ outcome' = "exit 1: login failed"
          /\ login_attempts' = login_attempts + 1
          /\ logged_in' = (r = LoggedIn)
          /\ login_error' = IF r = LoggedIn THEN NoError ELSE r.error
    /\ UNCHANGED <<run, end_date, current_date, now, GARMIN_EMAIL,
                   GARMIN_PASSWORD, wrote, write_faults, replay, store, dailyLocals,
                   activityLocals, counters>>
    /\ UNCHANGED <<prev, interrupted, stored, visited>>

\* conn = get_db_connection(); the date range; the counter of the daily loop
Connect ==
    /\ pc = "connect"
    /\ connected' = TRUE /\ conn' = db
    /\ end_date' = now
    /\ current_date' = now - DAYS_TO_FETCH
    /\ daily_count' = 0
    /\ pc' = "daily_loop"
    /\ UNCHANGED <<run, outcome, env, db, dailyLocals, activityLocals,
                   activity_count, hr_detail_count>>
    /\ UNCHANGED <<audit, stored, paced>>

\* ---------------------------------------------------------- the daily loop
\* while current_date <= end_date; after the loop the activity counters
DailyLoop ==
    /\ pc = "daily_loop"
    /\ pc' = IF current_date <= end_date THEN "get_stats" ELSE "get_activities"
    /\ visited' = IF current_date <= end_date
                  THEN Append(visited, current_date) ELSE visited
    /\ UNCHANGED <<run, outcome, end_date, current_date, env, store,
                   dailyLocals, activityLocals, counters>>
    /\ UNCHANGED <<login_attempts, login_error, prev, interrupted,
                   logged_in, stored, paced>>

\* stats = client.get_stats(date_str); an exception skips the date
GetStats ==
    /\ pc = "get_stats"
    /\ LET key == <<"get_stats", current_date>>
           full == {StatsOf(current_date)}
       IN  \E r \in Ask(key, StatsResponses(current_date), full) :
              /\ Answered(key, r, full)
              /\ IF r = Raise
                 THEN pc' = "next_date" /\ stats' = stats
                 ELSE pc' = "get_heart_rates" /\ stats' = r
    /\ UNCHANGED <<run, outcome, end_date, current_date, now, GARMIN_EMAIL,
                   GARMIN_PASSWORD, wrote, write_faults, replay, store, hr_data, sleep_score,
                   sleep_duration, body_battery, respiration, spo2,
                   activityLocals, counters>>
    /\ UNCHANGED <<audit, stored>>

\* hr_data = client.get_heart_rates(date_str); an exception skips the date
GetHeartRates ==
    /\ pc = "get_heart_rates"
    /\ LET key == <<"get_heart_rates", current_date>>
           full == {HeartRatesOf(current_date)}
       IN  \E r \in Ask(key, HeartRatesResponses(current_date), full) :
              /\ Answered(key, r, full)
              /\ IF r = Raise
                 THEN pc' = "next_date" /\ hr_data' = hr_data
                 ELSE pc' = "get_sleep_data" /\ hr_data' = r
    /\ UNCHANGED <<run, outcome, end_date, current_date, now, GARMIN_EMAIL,
                   GARMIN_PASSWORD, wrote, write_faults, replay, store, stats, sleep_score,
                   sleep_duration, body_battery, respiration, spo2,
                   activityLocals, counters>>
    /\ UNCHANGED <<audit, stored>>

\* sleep_data = client.get_sleep_data(date_str) and its two fields
GetSleepData ==
    /\ pc = "get_sleep_data"
    /\ LET key == <<"get_sleep_data", current_date>>
           full == {SleepOf(current_date)}
       IN  \E r \in Ask(key, SleepResponses(current_date), full) :
              /\ Answered(key, r, full)
              /\ sleep_score' = SleepFields(r)[1]
              /\ sleep_duration' = SleepFields(r)[2]
    /\ pc' = "get_body_battery"
    /\ UNCHANGED <<run, outcome, end_date, current_date, now, GARMIN_EMAIL,
                   GARMIN_PASSWORD, wrote, write_faults, replay, store, stats, hr_data,
                   body_battery, respiration, spo2, activityLocals, counters>>
    /\ UNCHANGED <<audit, stored>>

\* body_battery_data = client.get_body_battery(date_str) and its field
GetBodyBattery ==
    /\ pc = "get_body_battery"
    /\ LET key == <<"get_body_battery", current_date>>
           full == {BodyBatteryOf(current_date)}
       IN  \E r \in Ask(key, BodyBatteryResponses(current_date), full) :
              /\ Answered(key, r, full)
              /\ body_battery' = BodyBatteryField(r)
    /\ pc' = "get_respiration_data"
    /\ UNCHANGED <<run, outcome, end_date, current_date, now, GARMIN_EMAIL,
                   GARMIN_PASSWORD, wrote, write_faults, replay, store, stats, hr_data,
                   sleep_score, sleep_duration, respiration, spo2,
                   activityLocals, counters>>
    /\ UNCHANGED <<audit, stored>>

\* respiration_data = client.get_respiration_data(date_str) and its field
GetRespirationData ==
    /\ pc = "get_respiration_data"
    /\ LET key == <<"get_respiration_data", current_date>>
           full == {RespirationOf(current_date)}
       IN  \E r \in Ask(key, RespirationResponses(current_date), full) :
              /\ Answered(key, r, full)
              /\ respiration' = RespirationField(r)
    /\ pc' = "get_pulse_ox"
    /\ UNCHANGED <<run, outcome, end_date, current_date, now, GARMIN_EMAIL,
                   GARMIN_PASSWORD, wrote, write_faults, replay, store, stats, hr_data,
                   sleep_score, sleep_duration, body_battery, spo2,
                   activityLocals, counters>>
    /\ UNCHANGED <<audit, stored>>

\* spo2_data = client.get_pulse_ox(date_str) and its field
GetPulseOx ==
    /\ pc = "get_pulse_ox"
    /\ LET key == <<"get_pulse_ox", current_date>>
           full == {PulseOxOf(current_date)}
       IN  \E r \in Ask(key, PulseOxResponses(current_date), full) :
              /\ Answered(key, r, full)
              /\ spo2' = PulseOxField(r)
    /\ pc' = "save_daily_health"
    /\ UNCHANGED <<run, outcome, end_date, current_date, now, GARMIN_EMAIL,
                   GARMIN_PASSWORD, wrote, write_faults, replay, store, stats, hr_data,
                   sleep_score, sleep_duration, body_battery, respiration,
                   activityLocals, counters>>
    /\ UNCHANGED <<audit, stored>>

\* current_date.strftime('%Y-%m-%d'): current_date holds the day, and the
\* format keeps exactly the day.
DateStr(d) ==
    ToString(d)

\* The dict daily_data compiled from the answers of the date.
DailyData ==
    [steps |-> Get(stats, "totalSteps"),
     distance_meters |-> Get(stats, "totalDistanceMeters"),
     resting_hr |-> Get(hr_data, "restingHeartRate"),
     max_hr |-> Get(hr_data, "maxHeartRate"),
     sleep_duration |-> sleep_duration,
     sleep_score |-> sleep_score,
     body_battery |-> body_battery,
     respiration |-> respiration,
     spo2 |-> spo2,
     vo2_max |-> Get(stats, "vo2Max")]

\* The row save_daily_health writes for date_str and data.
DailyRow(date_str, data) ==
    [date |-> date_str,
     steps |-> Get(data, "steps"),
     distance_meters |-> Get(data, "distance_meters"),
     resting_heart_rate |-> Get(data, "resting_hr"),
     max_heart_rate |-> Get(data, "max_hr"),
     sleep_duration_seconds |-> Get(data, "sleep_duration"),
     sleep_score |-> Get(data, "sleep_score"),
     body_battery |-> Get(data, "body_battery"),
     respiration_rate |-> Get(data, "respiration"),
     spo2_avg |-> Get(data, "spo2"),
     vo2_max |-> Get(data, "vo2_max")]

\* save_daily_health(conn, date_str, data) on the tables c the connection
\* sees: the tables it sees afterwards when the statement has run.
save_daily_health(c, date_str, data) ==
    [c EXCEPT !.daily_health =
        InsertOrReplace(c.daily_health, "date", DailyRow(date_str, data))]

\* The effect on the store of a write whose statements turn the tables of
\* the connection into c, ending in the way w: conn.commit() makes all the
\* connection sees durable; a statement that raises changes nothing; a
\* commit that raises leaves the changes in the open transaction.
Write(c, w) ==
    /\ conn' = IF w = "execute_raises" THEN conn ELSE c
    /\ db' = IF w = "ok" THEN c ELSE db
    /\ connected' = connected
    /\ wrote' = TRUE
    /\ write_faults' = IF w = "ok" THEN write_faults ELSE write_faults + 1

\* daily_data = {...}; if save_daily_health(...): daily_count += 1.  The
\* .get of stats or hr_data raises when the call returned None, and the
\* date is skipped.
SaveDailyHealth ==
    /\ pc = "save_daily_health"
    /\ IF stats.tag # "dict" \/ hr_data.tag # "dict"
       THEN /\ pc' = "next_date"
            /\ UNCHANGED <<store, wrote, write_faults, daily_count, stored>>
       ELSE \E w \in WriteOutcomes :
               /\ Write(save_daily_health(conn, DateStr(current_date),
                                          DailyData), w)
               /\ stored' = IF w = "ok"
                             THEN [stored EXCEPT
                                      !.daily = @ + 1,
                                      !.dates = @ \cup {current_date}]
                             ELSE stored
               /\ daily_count' = IF w = "ok" THEN daily_count + 1
                                 ELSE daily_count
               /\ pc' = "daily_pause"
    /\ UNCHANGED <<run, outcome, end_date, current_date, now, GARMIN_EMAIL,
                   GARMIN_PASSWORD, called, faults, replay, answers, dailyLocals,
                   activityLocals, activity_count, hr_detail_count>>
    /\ UNCHANGED <<audit, paced>>

\* time.sleep(0.5)
DailyPause ==
    /\ pc = "daily_pause"
    /\ pc' = "next_date"
    /\ UNCHANGED <<run, outcome, end_date, current_date, env, store,
                   dailyLocals, activityLocals, counters>>
    /\ paced' = TRUE
    /\ UNCHANGED <<audit, stored>>

\* current_date += timedelta(days=1)
NextDate ==
    /\ pc = "next_date"
    /\ current_date' = current_date + 1
    /\ stats' = Unset /\ hr_data' = Unset
    /\ sleep_score' = None /\ sleep_duration' = None /\ body_battery' = None
    /\ respiration' = None /\ spo2' = None
    /\ pc' = "daily_loop"
    /\ UNCHANGED <<run, outcome, end_date, env, store, activityLocals,
                   counters>>
    /\ UNCHANGED <<audit, stored, paced>>

\* ------------------------------------------- the remote service: activities
road_Cycling == <<"R","o","a","d","_","C","y","c","l","i","n","g">>
indoor_rowing == <<"i","n","d","o","o","r","_">> \o rowing
running == <<"r","u","n","n","i","n","g">>
\* The types activity id may have in the service.
TypeKeys(id) ==
    IF id = 1 THEN {road_Cycling, running} ELSE {indoor_rowing, lap_swimming}

\* An entry of the activity list: activity id of type typeKey.
SummaryOf(id, typeKey) ==
    [tag |-> "dict", activityId |-> id,
     activityType |-> [tag |-> "dict", typeKey |-> typeKey],
     startTimeLocal |-> 100 + id, duration |-> 1800 + id,
     distance |-> 5000 + id, averageHR |-> 140 + id, maxHR |-> 170 + id,
     calories |-> 300 + id, averageSpeed |-> 3, maxSpeed |-> 5,
     elevationGain |-> 20 + id, elevationLoss |-> 10 + id]

WellFormed(id) ==
    {SummaryOf(id, t) : t \in TypeKeys(id)}

\* Entries with a null activityType or a null distance.
Summaries(id) ==
    WellFormed(id)
        \cup {[SummaryOf(id, running) EXCEPT !.activityType = PyNone],
              [SummaryOf(id, running) EXCEPT !.distance = None]}

List(items) == [tag |-> "list", items |-> items]

\* The list is most recent first; activity 2 is the more recent.
FullLists ==
    {List(<<>>)} \cup {List(<<a>>) : a \in WellFormed(1)}
        \cup {List(<<b, a>>) : b \in WellFormed(2), a \in WellFormed(1)}

ActivitiesResponses ==
    {Raise, PyNone} \cup FullLists
        \cup {List(<<a>>) : a \in Summaries(1)}
        \cup {List(<<b, a>>) : b \in Summaries(2), a \in Summaries(1)}

DetailOf(id) ==
    [tag |-> "dict", strokes |-> 400 + id, avgStrokeDistance |-> 2,
     swolfAverage |-> 40 + id,
     averageBikingCadenceInRevPerMinute |-> 80 + id,
     maxBikingCadenceInRevPerMinute |-> 100 + id, avgPower |-> 200 + id,
     averageStrokeRate |-> 24 + id, maxStrokeRate |-> 30 + id]

ActivityResponses(id) == {Raise, PyNone, EmptyDict, DetailOf(id)}

\* Heart-rate series: an entry of heartRateValues is a sequence of
\* (timestamp, heart rate) pairs, empty when the entry is null.
SeriesA == << <<1, 120>>, <<2, 130>> >>
SeriesB == << <<3, 125>>, <<3, 125>>, <<4, 0>> >>
SeriesNullTimestamp == << <<1, 120>>, <<None, 130>>, <<2, 140>> >>
SeriesMalformed == << <<1, 120>>, <<2>> >>

HrDict(entries) == [tag |-> "dict", heartRateValues |-> entries]

FullHr ==
    {EmptyDict, HrDict(<<SeriesA>>), HrDict(<< <<>>, SeriesB >>)}

HrResponses ==
    {Raise, PyNone, HrDict(<<SeriesNullTimestamp>>),
     HrDict(<<SeriesMalformed>>)} \cup FullHr

\* ------------------------------------------------------ the activity loop
\* The activity of the current iteration and the two locals computed from it.
activity == activities[idx]

activity_id == Str(Get(activity, "activityId"))

activity_type ==
    LET t == IF "activityType" \in DOMAIN activity
             THEN activity.activityType ELSE EmptyDict
    IN  IF "typeKey" \in DOMAIN t THEN t.typeKey ELSE unknown

\* activities = client.get_activities(0, 100); an exception, also the one of
\* iterating over None, ends the activity stage.
GetActivities ==
    /\ pc = "get_activities"
    /\ LET key == <<"get_activities", None>>
       IN  \E r \in Ask(key, ActivitiesResponses, FullLists) :
              /\ Answered(key, r, FullLists)
              /\ IF r.tag = "list"
                 THEN pc' = "activity_loop" /\ activities' = r.items
                      /\ idx' = 1
                 ELSE pc' = "close" /\ activities' = activities /\ idx' = idx
    /\ activity_count' = 0 /\ hr_detail_count' = 0
    /\ UNCHANGED <<run, outcome, end_date, current_date, now, GARMIN_EMAIL,
                   GARMIN_PASSWORD, wrote, write_faults, replay, store, dailyLocals, details,
                   hr_data_points, sport_metrics, k, daily_count>>
    /\ UNCHANGED <<audit, stored>>

\* for activity in activities: activity_id and activity_type; the .get of a
\* null activityType raises outside the per-activity try and ends the stage.
ActivityLoop ==
    /\ pc = "activity_loop"
    /\ pc' = IF idx > Len(activities) THEN "close"
             ELSE IF "activityType" \in DOMAIN activity
                     /\ activity.activityType.tag # "dict" THEN "close"
             ELSE "get_activity"
    /\ UNCHANGED <<run, outcome, end_date, current_date, env, store,
                   dailyLocals, activityLocals, counters>>
    /\ UNCHANGED <<audit, stored, paced>>

\* details = client.get_activity(activity_id); an exception skips the activity
GetActivity ==
    /\ pc = "get_activity"
    /\ LET id == Get(activity, "activityId")
           key == <<"get_activity", id>>
           full == {DetailOf(id)}
       IN  \E r \in Ask(key, ActivityResponses(id), full) :
              /\ Answered(key, r, full)
              /\ IF r = Raise
                 THEN pc' = "next_activity" /\ details' = details
                 ELSE pc' = "save_activity" /\ details' = r
    /\ UNCHANGED <<run, outcome, end_date, current_date, now, GARMIN_EMAIL,
                   GARMIN_PASSWORD, wrote, write_faults, replay, store, dailyLocals, activities,
                   idx, hr_data_points, sport_metrics, k, counters>>
    /\ UNCHANGED <<audit, stored>>

\* The dict activity_data and the row save_activity writes for it.
ActivityData ==
    [activity_id |-> activity_id,
     activity_type |-> activity_type,
     start_time |-> Get(activity, "startTimeLocal"),
     duration |-> Get(activity, "duration"),
     distance |-> Get(activity, "distance"),
     avg_hr |-> Get(activity, "averageHR"),
     max_hr |-> Get(activity, "maxHR"),
     calories |-> Get(activity, "calories"),
     avg_speed |-> Get(activity, "averageSpeed"),
     max_speed |-> Get(activity, "maxSpeed"),
     elevation_gain |-> Get(activity, "elevationGain"),
     elevation_loss |-> Get(activity, "elevationLoss")]

ActivityRow(data) ==
    [activity_id |-> Get(data, "activity_id"),
     activity_type |-> Get(data, "activity_type"),
     start_time |-> Get(data, "start_time"),
     duration_seconds |-> Get(data, "duration"),
     distance_meters |-> Get(data, "distance"),
     average_hr |-> Get(data, "avg_hr"),
     max_hr |-> Get(data, "max_hr"),
     calories |-> Get(data, "calories"),
     average_speed |-> Get(data, "avg_speed"),
     max_speed |-> Get(data, "max_speed"),
     elevation_gain |-> Get(data, "elevation_gain"),
     elevation_loss |-> Get(data, "elevation_loss")]

save_activity(c, data) ==
    [c EXCEPT !.activities =
        InsertOrReplace(c.activities, "activity_id", ActivityRow(data))]

\* if save_activity(conn, activity_data): activity_count += 1 and the log
\* line, whose activity.get('distance', 0)/1000 raises on a null distance
\* and skips the rest of the activity.
SaveActivity ==
    /\ pc = "save_activity"
    /\ \E w \in WriteOutcomes :
          /\ Write(save_activity(conn, ActivityData), w)
          /\ stored' = IF w = "ok" THEN [stored EXCEPT !.activity = @ + 1]
                        ELSE stored
          /\ activity_count' = IF w = "ok" THEN activity_count + 1
                               ELSE activity_count
          /\ pc' = IF w = "ok" /\ "distance" \in DOMAIN activity
                      /\ activity.distance = None
                   THEN "next_activity"
                   ELSE "get_activity_hr"
    /\ UNCHANGED <<run, outcome, end_date, current_date, now, GARMIN_EMAIL,
                   GARMIN_PASSWORD, called, faults, replay, answers, dailyLocals,
                   activityLocals, daily_count, hr_detail_count>>
    /\ UNCHANGED <<audit, paced>>

\* The pairs of the entries of heartRateValues, in order.
RECURSIVE Flatten(_)
Flatten(entries) ==
    IF entries = <<>> THEN <<>>
    ELSE Head(entries) \o Flatten(Tail(entries))

\* Unpacking "for timestamp, hr_value in hr_entry" raises on an element that
\* is no pair.
ParseRaises(r) ==
    /\ r.tag = "dict" /\ "heartRateValues" \in DOMAIN r
    /\ \E i \in 1..Len(Flatten(r.heartRateValues)) :
          Len(Flatten(r.heartRateValues)[i]) # 2

\* hr_data_points: of a truthy hr_detail that has heartRateValues, the pairs
\* of the non-empty entries whose heart rate is truthy.
HrDataPoints(r) ==
    IF r.tag = "dict" /\ "heartRateValues" \in DOMAIN r
    THEN LET pairs == SelectSeq(Flatten(r.heartRateValues),
                                LAMBDA p : Truthy(p[2]))
         IN  [i \in 1..Len(pairs) |->
                 [timestamp |-> pairs[i][1], hr |-> pairs[i][2]]]
    ELSE <<>>

\* hr_detail = client.get_activity_hr_in_timezones(activity_id) and its
\* parsing; an exception leaves the series of the activity alone.
GetActivityHr ==
    /\ pc = "get_activity_hr"
    /\ LET key == <<"get_activity_hr_in_timezones", Get(activity, "activityId")>>
       IN  \E r \in Ask(key, HrResponses, FullHr) :
              /\ Answered(key, r, FullHr)
              /\ IF r = Raise \/ ParseRaises(r)
                 THEN pc' = "sport_metrics" /\ hr_data_points' = <<>>
                 ELSE /\ hr_data_points' = HrDataPoints(r)
                      /\ pc' = IF HrDataPoints(r) # <<>> THEN "hr_delete"
                               ELSE "sport_metrics"
    /\ UNCHANGED <<run, outcome, end_date, current_date, now, GARMIN_EMAIL,
                   GARMIN_PASSWORD, wrote, write_faults, replay, store, dailyLocals, activities,
                   idx, details, sport_metrics, k, counters>>
    /\ UNCHANGED <<audit, stored>>

\* A statement of a write may raise, and so may its commit.
StatementOutcomes == WriteOutcomes \ {"commit_raises"}
CommitOutcomes == WriteOutcomes \ {"execute_raises"}

\* The row of activity_heart_rate for a data point.  Its timestamp column is
\* NOT NULL.
HeartRateRow(id, data_point) ==
    [activity_id |-> id, timestamp |-> data_point.timestamp,
     heart_rate |-> data_point.hr]

NotNullViolated(row) ==
    row.timestamp = None

\* save_activity_heart_rate, statement by statement.  After it returns,
\* with True or False, hr_detail_count += 1.
\* DELETE FROM activity_heart_rate WHERE activity_id = ?
HrDelete ==
    /\ pc = "hr_delete"
    /\ wrote' = TRUE
    /\ \E w \in StatementOutcomes :
          IF w = "ok"
          THEN /\ conn' = [conn EXCEPT !.activity_heart_rate =
                              DeleteActivity(@, activity_id)]
               /\ k' = 1 /\ pc' = "hr_insert"
               /\ UNCHANGED <<write_faults, hr_detail_count>>
          ELSE /\ write_faults' = write_faults + 1
               /\ hr_detail_count' = hr_detail_count + 1
               /\ pc' = "sport_metrics"
               /\ UNCHANGED <<conn, k>>
    /\ UNCHANGED <<run, outcome, end_date, current_date, now, GARMIN_EMAIL,
                   GARMIN_PASSWORD, called, faults, replay, answers, db,
                   connected, dailyLocals, activities, idx, details,
                   hr_data_points, sport_metrics, daily_count,
                   activity_count>>
    /\ UNCHANGED <<audit, stored, paced>>

\* for data_point in hr_data: INSERT INTO activity_heart_rate ...
HrInsert ==
    /\ pc = "hr_insert" /\ k <= Len(hr_data_points)
    /\ LET row == HeartRateRow(activity_id, hr_data_points[k])
       IN  \E w \in StatementOutcomes :
              IF w = "ok" /\ ~NotNullViolated(row)
              THEN /\ conn' = [conn EXCEPT !.activity_heart_rate =
                                  Insert(@, row)]
                   /\ k' = k + 1 /\ pc' = pc
                   /\ UNCHANGED <<write_faults, hr_detail_count>>
              ELSE /\ write_faults' = write_faults + 1
                   /\ hr_detail_count' = hr_detail_count + 1
                   /\ pc' = "sport_metrics"
                   /\ UNCHANGED <<conn, k>>
    /\ UNCHANGED <<run, outcome, end_date, current_date, now, GARMIN_EMAIL,
                   GARMIN_PASSWORD, called, wrote, faults, replay, answers,
                   db, connected, dailyLocals, activities, idx, details,
                   hr_data_points, sport_metrics, daily_count,
                   activity_count>>
    /\ UNCHANGED <<audit, stored, paced>>

\* conn.commit()
HrCommit ==
    /\ pc = "hr_insert" /\ k > Len(hr_data_points)
    /\ \E w \in CommitOutcomes :
          /\ Write(conn, w)
          /\ stored' = IF w = "ok" THEN [stored EXCEPT !.hr = @ + 1]
                        ELSE stored
    /\ hr_detail_count' = hr_detail_count + 1
    /\ pc' = "sport_metrics"
    /\ UNCHANGED <<run, outcome, end_date, current_date, now, GARMIN_EMAIL,
                   GARMIN_PASSWORD, called, faults, replay, answers,
                   dailyLocals, activityLocals, daily_count, activity_count>>
    /\ UNCHANGED <<audit, paced>>

\* sport_metrics = {} and the three families; details.get raises on a
\* details that is None, which skips the rest of the activity.
SportMetrics ==
    /\ pc = "sport_metrics"
    /\ IF details.tag # "dict"
          /\ ExtractSportMetrics(activity_type, EmptyDict) # <<>>
       THEN pc' = "next_activity" /\ sport_metrics' = <<>>
       ELSE /\ sport_metrics' = ExtractSportMetrics(activity_type, details)
            /\ pc' = IF ExtractSportMetrics(activity_type, details) # <<>>
                     THEN "sm_delete" ELSE "activity_pause"
    /\ UNCHANGED <<run, outcome, end_date, current_date, env, store,
                   dailyLocals, activities, idx, details, hr_data_points, k,
                   counters>>
    /\ UNCHANGED <<audit, stored, paced>>

SportMetricRow(id, item) ==
    [activity_id |-> id, metric_name |-> item[1], metric_value |-> item[2]]

\* save_sport_metrics, statement by statement.
\* DELETE FROM sport_metrics WHERE activity_id = ?
SmDelete ==
    /\ pc = "sm_delete"
    /\ wrote' = TRUE
    /\ \E w \in StatementOutcomes :
          IF w = "ok"
          THEN /\ conn' = [conn EXCEPT !.sport_metrics =
                              DeleteActivity(@, activity_id)]
               /\ k' = 1 /\ pc' = "sm_insert"
               /\ write_faults' = write_faults
          ELSE /\ write_faults' = write_faults + 1
               /\ pc' = "activity_pause"
               /\ UNCHANGED <<conn, k>>
    /\ UNCHANGED <<run, outcome, end_date, current_date, now, GARMIN_EMAIL,
                   GARMIN_PASSWORD, called, faults, replay, answers, db,
                   connected, dailyLocals, activities, idx, details,
                   hr_data_points, sport_metrics, counters>>
    /\ UNCHANGED <<audit, stored, paced>>

\* for metric_name, metric_value in metrics.items(): INSERT INTO sport_metrics
SmInsert ==
    /\ pc = "sm_insert" /\ k <= Len(sport_metrics)
    /\ \E w \in StatementOutcomes :
          IF w = "ok"
          THEN /\ conn' = [conn EXCEPT !.sport_metrics =
                              Insert(@, SportMetricRow(activity_id,
                                                       sport_metrics[k]))]
               /\ k' = k + 1 /\ pc' = pc
               /\ write_faults' = write_faults
          ELSE /\ write_faults' = write_faults + 1
               /\ pc' = "activity_pause"
               /\ UNCHANGED <<conn, k>>
    /\ UNCHANGED <<run, outcome, end_date, current_date, now, GARMIN_EMAIL,
                   GARMIN_PASSWORD, called, wrote, faults, replay, answers,
                   db, connected, dailyLocals, activities, idx, details,
                   hr_data_points, sport_metrics, counters>>
    /\ UNCHANGED <<audit, stored, paced>>

\* conn.commit()
SmCommit ==
    /\ pc = "sm_insert" /\ k > Len(sport_metrics)
    /\ \E w \in CommitOutcomes : Write(conn, w)
    /\ pc' = "activity_pause"
    /\ UNCHANGED <<run, outcome, end_date, current_date, now, GARMIN_EMAIL,
                   GARMIN_PASSWORD, called, faults, replay, answers,
                   dailyLocals, activityLocals, counters>>
    /\ UNCHANGED <<audit, stored, paced>>

\* time.sleep(1)
ActivityPause ==
    /\ pc = "activity_pause"
    /\ pc' = "next_activity"
    /\ UNCHANGED <<run, outcome, end_date, current_date, env, store,
                   dailyLocals, activityLocals, counters>>
    /\ paced' = TRUE
    /\ UNCHANGED <<audit, stored>>

\* The next iteration of the activity loop.
NextActivity ==
    /\ pc = "next_activity"
    /\ idx' = idx + 1
    /\ details' = Unset /\ hr_data_points' = <<>> /\ sport_metrics' = <<>>
    /\ k' = 0
    /\ pc' = "activity_loop"
    /\ UNCHANGED <<run, outcome, end_date, current_date, env, store,
                   dailyLocals, activities, counters>>
    /\ UNCHANGED <<audit, stored, paced>>

\* conn.close() rolls back the open transaction; the summary is logged.
Close ==
    /\ pc = "close"
    /\ connected' = FALSE /\ conn' = db /\ db' = db
    /\ pc' = "idle" /\ outcome' = "complete"
    /\ UNCHANGED <<run, end_date, current_date, env, dailyLocals,
                   activityLocals, counters>>
    /\ UNCHANGED <<audit, stored, paced>>

\* ------------------------------------------------------------ interrupts
\* The try blocks of the daily loop that end in a bare "except:", which
\* catches every exception, KeyboardInterrupt included; "except Exception"
\* does not catch it.
BareExcept ==
    {"get_sleep_data", "get_body_battery", "get_respiration_data",
     "get_pulse_ox"}

\* The position after a try block with a bare except.
AfterBareExcept(p) ==
    CASE p = "get_sleep_data" -> "get_body_battery"
      [] p = "get_body_battery" -> "get_respiration_data"
      [] p = "get_respiration_data" -> "get_pulse_ox"
      [] p = "get_pulse_ox" -> "save_daily_health"

\* SIGINT arrives while the job is at pc, a remote call of a try block
\* being in flight: Python raises KeyboardInterrupt there.  A bare except
\* takes it for a failed fetch and the job goes on; anywhere else it ends
\* the process, whose open transaction is lost with its connection.
Interrupt ==
    /\ pc # "idle"
    /\ faults + write_faults < MaxFaults
    /\ faults' = faults + 1
    /\ interrupted' = TRUE
    /\ sleep_score' = IF pc = "get_sleep_data" THEN None ELSE sleep_score
    /\ sleep_duration' = IF pc = "get_sleep_data" THEN None
                         ELSE sleep_duration
    /\ body_battery' = IF pc = "get_body_battery" THEN None
                       ELSE body_battery
    /\ respiration' = IF pc = "get_respiration_data" THEN None
                      ELSE respiration
    /\ spo2' = IF pc = "get_pulse_ox" THEN None ELSE spo2
    /\ IF pc \in BareExcept
       THEN /\ pc' = AfterBareExcept(pc)
            /\ called' = TRUE /\ paced' = FALSE
            /\ UNCHANGED <<outcome, store>>
       ELSE /\ pc' = "idle" /\ outcome' = "interrupted"
            /\ connected' = FALSE /\ conn' = db /\ db' = db
            /\ UNCHANGED <<called, paced>>
    /\ UNCHANGED <<run, end_date, current_date, now, GARMIN_EMAIL,
                   GARMIN_PASSWORD, wrote, write_faults, replay, answers,
                   stats, hr_data, activityLocals, counters, login_attempts,
                   login_error, prev, logged_in, stored, visited>>

\* ------------------------------------------------------- the specification
\* The steps of the job.
Job ==
    \/ Launch \/ CheckCredentials \/ Login \/ Connect
    \/ DailyLoop \/ GetStats \/ GetHeartRates \/ GetSleepData
    \/ GetBodyBattery \/ GetRespirationData \/ GetPulseOx
    \/ SaveDailyHealth \/ DailyPause \/ NextDate
    \/ GetActivities \/ ActivityLoop \/ GetActivity \/ SaveActivity
    \/ GetActivityHr \/ HrDelete \/ HrInsert \/ HrCommit
    \/ SportMetrics \/ SmDelete \/ SmInsert \/ SmCommit
    \/ ActivityPause \/ NextActivity \/ Close

Next ==
    Job \/ Interrupt

Spec == Init /\ [][Next]_vars

\* The job against a service that answers a call in a later run as it
\* answered it in the first, on the same day, with a store that never fails
\* and no interrupt.
InitStable ==
    InitCommon /\ replay = TRUE

SpecStable == InitStable /\ [][Job]_vars

\* The extraction of the sport metrics, on activity types of every letter
\* case: a word in each of its spellings in upper and lower case, alone or
\* inside a longer type.
UpperChar(c) ==
    IF \E i \in 1..Len(LowerOf) : LowerOf[i] = c
    THEN Upper[CHOOSE i \in 1..Len(LowerOf) : LowerOf[i] = c]
    ELSE c

Spellings(w) ==
    {[i \in 1..Len(w) |-> IF i \in S THEN UpperChar(w[i]) ELSE w[i]] :
        S \in SUBSET (1..Len(w))}

swimming == <<"s","w","i","m","m","i","n","g">>
Lap_Swimming == <<"L","a","p","_","S","w","i","m","m","i","n","g">>
OPEN_WATER == <<"O","P","E","N","_","W","A","T","E","R">>
cycle == <<"c","y","c","l","e">>

Words ==
    Spellings(cycling) \cup Spellings(rowing)
        \cup {lap_swimming, Lap_Swimming, open_water, OPEN_WATER, swimming,
              running, unknown, cycle, <<>>, cycling \o <<"_">> \o rowing}

Affixes == {<<>>, <<"e","_">>, <<"_","v","2">>}

TypeStrings ==
    {pre \o w \o suf : pre \in Affixes \ {<<"_","v","2">>}, w \in Words,
                        suf \in Affixes \ {<<"e","_">>}}

\* The job at the extraction for the one listed activity, of any of the
\* types, after a daily stage that stored both dates and after the record of
\* the activity was stored.
InitExtract ==
    /\ pc = "sport_metrics" /\ run = 1 /\ outcome = "running"
    /\ now = DAYS_TO_FETCH
    /\ GARMIN_EMAIL = "secret" /\ GARMIN_PASSWORD = "secret"
    /\ end_date = now /\ current_date = now + 1
    /\ daily_count = DAYS_TO_FETCH + 1
    /\ stats = Unset /\ hr_data = Unset
    /\ sleep_score = None /\ sleep_duration = None /\ body_battery = None
    /\ respiration = None /\ spo2 = None
    /\ activities \in {<<SummaryOf(1, t)>> : t \in TypeStrings}
    /\ idx = 1
    /\ details \in {DetailOf(1), EmptyDict, PyNone}
    /\ hr_data_points = <<>> /\ sport_metrics = <<>> /\ k = 0
    /\ activity_count = 1 /\ hr_detail_count = 0
    /\ called = TRUE /\ wrote = TRUE
    /\ faults = 0 /\ write_faults = 0
    /\ replay = FALSE
    /\ answers = [key \in CallKeys |-> Unasked]
    /\ login_attempts = 1 /\ login_error = NoError /\ prev = NoRun
    /\ interrupted = FALSE /\ logged_in = TRUE
    /\ visited = [i \in 1..(DAYS_TO_FETCH + 1) |-> i - 1]
    /\ stored = [daily |-> DAYS_TO_FETCH + 1, dates |-> 0..DAYS_TO_FETCH,
                 activity |-> 1, hr |-> 0]
    /\ paced = FALSE
    /\ db = [EmptyTables EXCEPT
                !.daily_health =
                    [r \in {DailyRow(DateStr(d),
                                     [steps |-> 5000 + d,
                                      distance_meters |-> 4000 + d,
                                      resting_hr |-> 60 + d,
                                      max_hr |-> 150 + d,
                                      sleep_duration |-> 25000 + d,
                                      sleep_score |-> 80 + d,
                                      body_battery |-> 70 + d,
                                      respiration |-> 15 + d,
                                      spo2 |-> 95 + d,
                                      vo2_max |-> 50 + d]) :
                                d \in 0..DAYS_TO_FETCH} |-> 1],
                !.activities = SetToBag({ActivityRow(ActivityData)})]
    /\ conn = db /\ connected = TRUE

NextExtract ==
    SportMetrics \/ SmDelete \/ SmInsert \/ SmCommit

SpecExtract == InitExtract /\ [][NextExtract]_vars

\* ------------------------------------------------------------ the reader
\* get_activity_detail(activity_id) of the web application, on its own
\* connection: each of its queries sees the committed tables.  The rows of
\* its heart-rate query (which ORDER BY orders) and of its metrics query.
HeartRateData(tables, id) ==
    Where(tables.activity_heart_rate, "activity_id", id)

SportMetricsData(tables, id) ==
    Where(tables.sport_metrics, "activity_id", id)

\* ----------------------------------------------------------------- claims
\* The rows of a series of data points and of a dict of metrics.
RECURSIVE HeartRateRows(_, _)
HeartRateRows(id, points) ==
    IF points = <<>> THEN EmptyBag
    ELSE SetToBag({HeartRateRow(id, Head(points))})
            (+) HeartRateRows(id, Tail(points))

RECURSIVE SportMetricRows(_, _)
SportMetricRows(id, items) ==
    IF items = <<>> THEN EmptyBag
    ELSE SetToBag({SportMetricRow(id, Head(items))})
            (+) SportMetricRows(id, Tail(items))

ActivityIdStrings == {Str(id) : id \in ActivityIds}

DailyEndpoints ==
    {"get_stats", "get_heart_rates", "get_sleep_data", "get_body_battery",
     "get_respiration_data", "get_pulse_ox"}

FullAnswer(e, d) ==
    CASE e = "get_stats" -> StatsOf(d)
      [] e = "get_heart_rates" -> HeartRatesOf(d)
      [] e = "get_sleep_data" -> SleepOf(d)
      [] e = "get_body_battery" -> BodyBatteryOf(d)
      [] e = "get_respiration_data" -> RespirationOf(d)
      [] e = "get_pulse_ox" -> PulseOxOf(d)

\* The record of date d when the call f alone failed: the fields fed by f
\* unknown, every other field as the service has it.
RecordWithout(d, f) ==
    [date |-> DateStr(d),
     steps |-> IF f = "get_stats" THEN None ELSE 5000 + d,
     distance_meters |-> IF f = "get_stats" THEN None ELSE 4000 + d,
     resting_heart_rate |-> IF f = "get_heart_rates" THEN None ELSE 60 + d,
     max_heart_rate |-> IF f = "get_heart_rates" THEN None ELSE 150 + d,
     sleep_duration_seconds |->
        IF f = "get_sleep_data" THEN None ELSE 25000 + d,
     sleep_score |-> IF f = "get_sleep_data" THEN None ELSE 80 + d,
     body_battery |-> IF f = "get_body_battery" THEN None ELSE 70 + d,
     respiration_rate |->
        IF f = "get_respiration_data" THEN None ELSE 15 + d,
     spo2_avg |-> IF f = "get_pulse_ox" THEN None ELSE 95 + d,
     vo2_max |-> IF f = "get_stats" THEN None ELSE 50 + d]

\* The job has finished the iteration of date d in some run.
DateDone(d) ==
    current_date # None /\ current_date > d

\* Exactly the call f of date d failed: it raised, and every other call of
\* the date that was made was answered in full.
OnlyFailed(d, f) ==
    /\ answers[<<f, d>>] = Raise
    /\ \A e \in DailyEndpoints \ {f} :
          answers[<<e, d>>] \in {Unasked, FullAnswer(e, d)}

\* C1: after a run that logged in and ran to completion (and whose writes
\* all succeeded), daily_health holds a record for every date of the range,
\* whatever remote calls failed.
C1_EveryDateHasARecord ==
    (pc = "idle" /\ outcome = "complete" /\ write_faults = 0)
        => \A d \in (end_date - DAYS_TO_FETCH)..end_date :
              Count(db.daily_health, "date", DateStr(d)) >= 1

\* C2: when exactly one per-date call failed for a date, the record of the
\* date is stored, with the fields of the failing call unknown and every
\* other field as its call returned it; for each of the six calls.
C2_OneFailingCall ==
    \A d \in Dates, f \in DailyEndpoints :
        (DateDone(d) /\ OnlyFailed(d, f))
            => /\ Count(db.daily_health, "date", DateStr(d)) = 1
               /\ BagIn(RecordWithout(d, f), db.daily_health)

\* C2, for the four calls that have a try of their own.
C2_OneFailingGuardedCall ==
    \A d \in Dates,
       f \in DailyEndpoints \ {"get_stats", "get_heart_rates"} :
        (DateDone(d) /\ OnlyFailed(d, f))
            => /\ Count(db.daily_health, "date", DateStr(d)) = 1
               /\ BagIn(RecordWithout(d, f), db.daily_health)

OneRowPerKey(tables) ==
    /\ \A r \in DOMAIN tables.daily_health :
          Count(tables.daily_health, "date", r.date) = 1
    /\ \A r \in DOMAIN tables.activities :
          Count(tables.activities, "activity_id", r.activity_id) = 1

\* C3: in every reachable state daily_health holds at most one row per date
\* and activities at most one row per activity_id, in the committed tables
\* and in the tables as the job's connection sees them.
C3_OneRowPerKey ==
    OneRowPerKey(db) /\ OneRowPerKey(conn)

\* A second run, the day after a first one that stored every date and both
\* activities, has upserted the date the two ranges share and an activity
\* whose type has changed since the first run stored its metrics.
C3_Witness ==
    /\ run = 2 /\ pc = "close" /\ faults = 0 /\ write_faults = 0
    /\ end_date = DAYS_TO_FETCH + 1
    /\ daily_count = DAYS_TO_FETCH + 1
    /\ BagCardinality(db.daily_health) = DAYS_TO_FETCH + 2
    /\ activity_count = 2
    /\ BagCardinality(db.activities) = 2
    /\ \E r \in DOMAIN db.activities :
          /\ r.activity_id = "1" /\ r.activity_type = running
          /\ Count(db.sport_metrics, "activity_id", "1") > 0

\* C4: when the service answers as in the first run and no write fails, no
\* step of a second run over the same range changes the stored state: the
\* state after two runs is the state after one.
C4_SecondRunChangesNothing ==
    [][run >= 2 => db' = db]_vars

\* A second run has fetched and stored again each date, both activities, a
\* heart-rate series and sport metrics.
C4_Witness ==
    /\ replay /\ run = 2 /\ pc = "close"
    /\ daily_count = DAYS_TO_FETCH + 1 /\ activity_count = 2
    /\ hr_detail_count = 2
    /\ BagCardinality(db.activity_heart_rate) > 2
    /\ BagCardinality(db.sport_metrics) > 3

\* C5: when save_activity_heart_rate commits, the stored samples of the
\* activity are exactly the given samples, as a multiset.
C5_SeriesReplaced ==
    [][(pc = "hr_insert" /\ k > Len(hr_data_points)
            /\ pc' = "sport_metrics" /\ write_faults' = write_faults)
        => HeartRateData(db', activity_id)
              = HeartRateRows(activity_id, hr_data_points)]_vars

\* A replace is about to commit: the connection holds the new series, two
\* samples of which are equal, and the committed series of the activity is
\* another one, stored by an earlier run.
C5_Witness ==
    /\ run = 2 /\ pc = "hr_insert" /\ k > Len(hr_data_points)
    /\ hr_data_points[1] = hr_data_points[2]
    /\ HeartRateData(conn, activity_id)
          = HeartRateRows(activity_id, hr_data_points)
    /\ HeartRateData(db, activity_id) # EmptyBag
    /\ HeartRateData(db, activity_id) # HeartRateData(conn, activity_id)

\* C6: after a pass has processed an activity (every call answered in full,
\* no write failed), its stored samples and metrics are those of this pass.
C6_StoredIsThisPass ==
    (pc = "activity_pause" /\ faults = 0 /\ write_faults = 0)
        => /\ HeartRateData(db, activity_id)
                 = HeartRateRows(activity_id, hr_data_points)
           /\ SportMetricsData(db, activity_id)
                 = SportMetricRows(activity_id, sport_metrics)

\* C7: what a reader sees of the series and of the metrics of an activity
\* changes only from the complete previous set to the complete new set.
C7_ReaderSeesOldOrNew ==
    [][\A id \in ActivityIdStrings :
          /\ HeartRateData(db', id) # HeartRateData(db, id)
                => /\ pc = "hr_insert" /\ id = activity_id
                   /\ HeartRateData(db', id)
                         = HeartRateRows(id, hr_data_points)
          /\ SportMetricsData(db', id) # SportMetricsData(db, id)
                => /\ pc = "sm_insert" /\ id = activity_id
                   /\ SportMetricsData(db', id)
                         = SportMetricRows(id, sport_metrics)]_vars

\* The position at which the job commits its changes to a table.
CommitsAt(t) ==
    CASE t = "daily_health" -> "save_daily_health"
      [] t = "activities" -> "save_activity"
      [] t = "activity_heart_rate" -> "hr_insert"
      [] t = "sport_metrics" -> "sm_insert"

\* C8: the changes to the series or to the metrics that a replace that raised
\* has left in the connection never become durable through a later write.
C8_FailedWriteNeverDurable ==
    [][\A t \in {"activity_heart_rate", "sport_metrics"} :
          (conn[t] # db[t] /\ pc # CommitsAt(t)) => db'[t] = db[t]]_vars

\* A credential variable is not set.
Missing(v) ==
    v = NoEnv

\* C10: with a credential missing the run (when no interrupt ends it
\* first) ends with the configuration error, having made no remote call,
\* opened no connection and written nothing.
C10_MissingCredential ==
    (run > 0 /\ ~interrupted
            /\ (Missing(GARMIN_EMAIL) \/ Missing(GARMIN_PASSWORD)))
        => /\ pc \in {"check_credentials", "idle"}
           /\ pc = "idle" => outcome = "exit 1: credentials not set"
           /\ ~called /\ ~wrote /\ ~connected

\* A run has ended on a missing password while the store holds rows.
C10_Witness ==
    /\ run = 2 /\ pc = "idle"
    /\ GARMIN_EMAIL = "secret" /\ Missing(GARMIN_PASSWORD)
    /\ outcome = "exit 1: credentials not set"
    /\ BagCardinality(db.daily_health) > 0

\* The word occurs in s, each of its letters in upper or in lower case.
OccursInAnyCase(word, s) ==
    \E i \in 0..(Len(s) - Len(word)) :
        \A j \in 1..Len(word) :
            s[i + j] = word[j] \/ s[i + j] = UpperChar(word[j])

\* C9: once the metrics of an activity are extracted, a type that contains
\* "cycling" in any letter case has given the cadence and power keys, one
\* that contains "rowing" the stroke-rate keys, and one of no family has
\* given nothing, and no sport metric is written for the activity.
C9_MetricsByFamily ==
    pc \in {"sm_delete", "sm_insert", "activity_pause"}
        => /\ OccursInAnyCase(cycling, activity_type)
                 => {"avg_cadence", "max_cadence", "avg_power"}
                        \subseteq Keys(sport_metrics)
           /\ OccursInAnyCase(rowing, activity_type)
                 => {"avg_stroke_rate", "max_stroke_rate"}
                        \subseteq Keys(sport_metrics)
           /\ (~OccursInAnyCase(cycling, activity_type)
                 /\ ~OccursInAnyCase(rowing, activity_type)
                 /\ ~OccursInAnyCase(lap_swimming, activity_type)
                 /\ ~OccursInAnyCase(open_water, activity_type))
                 => /\ sport_metrics = <<>>
                    /\ pc = "activity_pause"
                    /\ conn.sport_metrics = EmptyBag
                    /\ db.sport_metrics = EmptyBag

\* The metrics of an activity whose type spells "cycling" with upper-case
\* letters, inside a longer type, are stored.
C9_Witness ==
    /\ pc = "activity_pause"
    /\ OccursInAnyCase(cycling, activity_type)
    /\ ~Contains(cycling, activity_type)
    /\ Len(activity_type) > Len(cycling)
    /\ Keys(sport_metrics) = {"avg_cadence", "max_cadence", "avg_power"}
    /\ BagCardinality(db.sport_metrics) = 3

\* C11: once login has succeeded no failure for one date or one activity
\* aborts a loop: when the job reaches its summary, the daily loop has
\* passed the last date of the range and the activity loop the last listed
\* activity.
C11_LoopsNeverAbort ==
    pc = "close"
        => /\ logged_in
           /\ current_date > end_date
           /\ idx > Len(activities) \/ activities = <<>>

\* C11, for the daily loop and the order of the stages alone.
C11_DailyLoopNeverAborts ==
    pc = "close" => (logged_in /\ current_date > end_date)

\* C12: when the job is done with a listed activity (no write having
\* failed), the record of the activity is stored, whether or not the fetch
\* of its heart-rate series or of its detail failed.
C12_RecordUpsertedRegardless ==
    (pc = "next_activity" /\ write_faults = 0)
        => BagIn(ActivityRow(ActivityData), db.activities)

\* C12, for an activity whose detail was fetched.
C12_RecordUpsertedAfterDetail ==
    (pc = "next_activity" /\ write_faults = 0 /\ details # Unset)
        => BagIn(ActivityRow(ActivityData), db.activities)

\* C13: a run does not give up on a login that failed for a transient
\* reason before it has tried again.
C13_TransientLoginRetried ==
    (pc = "idle" /\ outcome = "exit 1: login failed"
            /\ login_error = "connection")
        => login_attempts >= 2

\* C14: a login that fails on the credentials ends the run after one
\* attempt, with no stage executed and nothing written, in an outcome other
\* than the one of a run whose login failed for a transient reason.
C14_AuthenticationFailure ==
    login_error = "authentication"
        => /\ pc = "idle" /\ login_attempts = 1
           /\ ~wrote /\ ~connected /\ daily_count = 0 /\ activity_count = 0
           /\ prev.error = "connection" => outcome # prev.outcome

\* C14, without the comparison of the outcomes.
C14_AuthenticationFailureEndsRun ==
    login_error = "authentication"
        => /\ pc = "idle" /\ login_attempts = 1
           /\ ~wrote /\ ~connected /\ daily_count = 0 /\ activity_count = 0

\* C15: once an interrupt has arrived the run has stopped, and the step of
\* the interrupt has left the stored records as they were.
C15_InterruptStops ==
    [][interrupted' => (pc' = "idle" /\ db' = db)]_vars

\* C15, for the stored records alone.
C15_InterruptKeepsRecords ==
    [][(interrupted' /\ ~interrupted) => db' = db]_vars

\* C16: the counts of the summary are the numbers of saves of the run that
\* succeeded: of daily records, of activity records, of heart-rate series.
C16_CountsAreStored ==
    pc = "close"
        => /\ daily_count = stored.daily
           /\ activity_count = stored.activity
           /\ hr_detail_count = stored.hr

\* C16, for the two counts of records.
C16_RecordCountsAreStored ==
    pc = "close"
        => /\ daily_count = stored.daily
           /\ activity_count = stored.activity

\* C17: every stored heart-rate sample and every stored sport metric belongs
\* to an activity that has a stored record.
C17_ReferentialIntegrity ==
    /\ \A r \in DOMAIN db.activity_heart_rate :
          Count(db.activities, "activity_id", r.activity_id) >= 1
    /\ \A r \in DOMAIN db.sport_metrics :
          Count(db.activities, "activity_id", r.activity_id) >= 1

\* The positions of the per-date remote calls and of the activity calls.
PerDateCalls ==
    {"get_stats", "get_heart_rates", "get_sleep_data", "get_body_battery",
     "get_respiration_data", "get_pulse_ox"}

ActivityCalls ==
    {"get_activities", "get_activity", "get_activity_hr"}

\* C18: a per-date call or a write is made only after login has succeeded,
\* and an activity call only after the daily loop has passed its last date.
C18_StageOrdering ==
    /\ (pc \in PerDateCalls \/ wrote \/ connected) => logged_in
    /\ pc \in ActivityCalls => (logged_in /\ current_date > end_date)

\* The job fetches the heart-rate series of an activity, having written the
\* record of every date of the range.
C18_Witness ==
    /\ pc = "get_activity_hr" /\ wrote /\ logged_in
    /\ daily_count = DAYS_TO_FETCH + 1
    /\ stored.activity = 1

\* C19: the first remote call of a date iteration after the first, and of
\* an activity iteration after the first, is made after a pacing delay.
C19_PacedIterations ==
    /\ (pc = "get_stats" /\ current_date > end_date - DAYS_TO_FETCH)
          => paced
    /\ (pc = "get_activity" /\ idx > 1) => paced

\* C19, after an iteration in which no fetch failed and no interrupt came.
C19_PacedAfterFullIteration ==
    faults = 0 => C19_PacedIterations

\* What C20 asks of a step: a save of a daily record or of an activity
\* record that succeeds leaves stored, under its key, exactly the new row,
\* and the rows of the other keys as they were.
FullReplaceStep ==
    /\ (pc = "save_daily_health" /\ pc' = "daily_pause"
            /\ write_faults' = write_faults)
          => /\ Where(db'.daily_health, "date", DateStr(current_date))
                   = SetToBag({DailyRow(DateStr(current_date), DailyData)})
             /\ WhereNot(db'.daily_health, "date", DateStr(current_date))
                   = WhereNot(db.daily_health, "date",
                              DateStr(current_date))
    /\ (pc = "save_activity" /\ pc' \in {"get_activity_hr", "next_activity"}
            /\ write_faults' = write_faults)
          => /\ Where(db'.activities, "activity_id", activity_id)
                   = SetToBag({ActivityRow(ActivityData)})
             /\ WhereNot(db'.activities, "activity_id", activity_id)
                   = WhereNot(db.activities, "activity_id", activity_id)

\* C20: last write wins, by full replace: every save of a record that
\* succeeds is a FullReplaceStep.
C20_FullReplace ==
    [][FullReplaceStep]_vars

\* C20, while no write has failed.
C20_FullReplaceWithoutFailedWrite ==
    [][write_faults = 0 => FullReplaceStep]_vars

\* C21: the daily loop visits the dates of the range in ascending order,
\* each once, and ends; and at every point of the run the dates that have a
\* record written by this run are a prefix of the range.
C21_AscendingPrefix ==
    end_date # None
        => /\ \A i \in 1..Len(visited) :
                 visited[i] = end_date - DAYS_TO_FETCH + i - 1
           /\ Len(visited) <= DAYS_TO_FETCH + 1
           /\ current_date > end_date => Len(visited) = DAYS_TO_FETCH + 1
           /\ \A d \in stored.dates :
                 (end_date - DAYS_TO_FETCH)..d \subseteq stored.dates

\* C21, for the order of the visits and the end of the loop alone.
C21_AscendingOnce ==
    end_date # None
        => /\ \A i \in 1..Len(visited) :
                 visited[i] = end_date - DAYS_TO_FETCH + i - 1
           /\ Len(visited) <= DAYS_TO_FETCH + 1
           /\ current_date > end_date => Len(visited) = DAYS_TO_FETCH + 1

=============================================================================
